---- MODULE Spec2Model ----
(***************************************************************************)
(* Model of the FastAPI demo server's authentication and authorization     *)
(* core: the in-memory UserService (app/services/user_service.py), the     *)
(* dependency chain get_current_user -> get_current_active_user ->         *)
(* get_admin_user (app/api/auth.py, app/api/users.py) and the endpoints    *)
(* that sit behind it, the admin-only endpoints of app/api/products.py on  *)
(* the in-memory ProductService (app/services/product_service.py)          *)
(* included.  app/core/security.py (password hashing and the               *)
(* JWT codec) is not part of the sources at hand; its four functions are   *)
(* modelled from the written specification (sections 4.1 and 4.2).         *)
(*                                                                         *)
(* The endpoints of auth.py, users.py and products.py are `async def`      *)
(* functions whose bodies never await, so on the single event loop one     *)
(* request is one atomic step: one action per endpoint.  The two upload    *)
(* endpoints of app/api/files.py await file.read() after their dependency  *)
(* and validate_file have run.  A content held in memory is returned at    *)
(* once and the request is still one step; a content above 1 MiB is on     *)
(* disk, the handler is suspended, and the request is one action up to the *)
(* await and one from its return, other requests being served in between.  *)
(*                                                                         *)
(* Spec serves the auth and users routers, SpecAdmin the admin-only        *)
(* endpoints with products, SpecUpload the files router interleaved with   *)
(* logins, updates and deletions, SpecStore the UserService alone,         *)
(* SpecToken one token while the clock moves.                              *)
(***************************************************************************)
EXTENDS Integers, Sequences, FiniteSets, TLC

VARIABLES
    users,      \* UserService._users: list of UserInDB, in creation order
    next_id,    \* UserService._next_id
    now,        \* the clock (datetime.utcnow()), in minutes
    tokens,     \* access tokens issued so far, each with the id of the account it was issued for
    uploads,    \* number of files written to the uploads directory
    resp,       \* the response to the last request
    returned,   \* history: the ids returned by successful create_user calls
    products,   \* ProductService._products: list of Product, in creation order
    product_next_id, \* ProductService._next_id
    in_flight,  \* upload requests suspended at `await file.read()`
    expired_at_exp, \* whether verify_token of this build refuses a token at the instant exp
    pc,         \* SpecConc: position of each concurrent register request
    req,        \* SpecConc: the UserCreate body each concurrent request carries
    out         \* SpecConc: the response each concurrent request got

vars == <<users, next_id, now, tokens, uploads, resp, returned, products, product_next_id,
          in_flight, expired_at_exp, pc, req, out>>

----------------------------------------------------------------------------
(* Bounds of the model *)

\* SpecStore: create_user is offered only while _next_id <= MaxId
MaxId == 4
\* Spec: create_user is offered only while _next_id <= MaxGuardId
MaxGuardId == 3
\* the clock stops at MaxTime
MaxTime == 31
\* at most MaxTokens tokens are kept for later requests
MaxTokens == 2
\* at most MaxUploads files are written
MaxUploads == 1
\* SpecUpload: at most MaxInFlight upload requests are suspended at a time
MaxInFlight == 1
\* SpecAdmin: create_product is offered only while its _next_id <= MaxProductId
MaxProductId == 4

(* Program constants *)

\* Settings.access_token_expire_minutes
ACCESS_TOKEN_EXPIRE_MINUTES == 30
\* UserCreate.validate_password: len(v) < 6 is rejected
MIN_PASSWORD_LENGTH == 6
\* MAX_FILE_SIZE = 10 * 1024 * 1024
MAX_FILE_SIZE == 10485760
\* upload_files: len(files) > 5 is refused
MAX_FILES_PER_REQUEST == 5
\* UploadFile holds a content of up to 1 MiB in memory and rolls a longer one over
\* to a file on disk
SPOOL_MAX_SIZE == 1048576

\* Settings.secret_key, the key that signs the tokens
SECRET_KEY == "your-super-secret-key-change-this-in-production"

\* UserRole
ADMIN == "admin"
USER == "user"
MODERATOR == "moderator"
UserRole == {ADMIN, USER, MODERATOR}

\* Optional[...] = None for full_name and updated_at
NoName == "None"
NoTime == -1

\* passwords are character sequences, so that len() is computed
PW_ADMIN == <<"a", "d", "m", "i", "n", "1", "2", "3">>
PW_JOHN == <<"u", "s", "e", "r", "1", "2", "3">>
PW_SECRET1 == <<"s", "e", "c", "r", "e", "t", "1">>
PW_SHORT == <<"s", "h", "o", "r", "t">>

----------------------------------------------------------------------------
(* app/core/security.py: modelled from the specification, 4.1 and 4.2 *)

\* salts the hasher may draw
Salts == {"s1"}

\* hash(plaintext): a salted one-way digest
get_password_hash(password, salt) == [salt |-> salt, digest |-> password]

\* verify(plaintext, digest): true iff digest was produced from plaintext
verify_password(password, hashed) == hashed.digest = password

\* issue(subject, now, ttl): signed token with expiresAt = now + ttl
create_access_token(data, expires_delta, t) ==
    [sub |-> data.sub, exp |-> t + expires_delta, sig |-> SECRET_KEY]

\* verify(token, now): Malformed on a bad signature, Expired past expiresAt,
\* otherwise the subject; the dependency turns both failures into a 401.  At the
\* instant expiresAt itself the written specification says both (4.2: Expired if
\* now > expiresAt; 4.4 and 8: Expired when now >= expiresAt) and security.py is
\* not at hand to decide: expired_at_exp is the answer of the build, either one
verify_token(token, t) ==
    IF token.sig # SECRET_KEY
        THEN [ok |-> FALSE, kind |-> "Malformed", username |-> ""]
    ELSE IF t > token.exp \/ (t = token.exp /\ expired_at_exp)
        THEN [ok |-> FALSE, kind |-> "Expired", username |-> ""]
    ELSE [ok |-> TRUE, kind |-> "Valid", username |-> token.sub]

----------------------------------------------------------------------------
(* app/models/__init__.py *)

\* UserCreate.validate_password
validate_password(v) == Len(v) >= MIN_PASSWORD_LENGTH

\* UserCreate(username, email, password, full_name=None, role=USER, is_active=True)
UserCreate(username, email, password, full_name, role, is_active) ==
    [username |-> username, email |-> email, password |-> password,
     full_name |-> full_name, role |-> role, is_active |-> is_active]

\* `v is None`, for a value of any type
IsNone(v) == ToString(v) = ToString(NoName)

\* User(**d) validates d: email (str), role (UserRole) and is_active (bool) must
\* not be None; full_name and updated_at are Optional
ValidUser(user) == ~IsNone(user.email) /\ ~IsNone(user.role) /\ ~IsNone(user.is_active)

\* what a call gives back: 200 and the value returned, or 500 when it raised an
\* exception that is no HTTPException (pydantic's ValidationError)
Result(status, detail, value) == [status |-> status, detail |-> detail, value |-> value]

\* the stored UserInDB handed back as it is, hashed_password included
StripHash_nothing_excluded(user) == user

\* User(**user.dict(exclude={"hashed_password"})): the response view
StripHash(user) ==
    [f \in DOMAIN user \ {"hashed_password"} |-> user[f]]

----------------------------------------------------------------------------
(* app/services/user_service.py *)

\* the loop `for user in self._users: if user.<field> == value`: the index of the
\* first match, 0 when there is none
FirstIndex(us, field, value) ==
    IF \E i \in 1..Len(us) : us[i][field] = value
        THEN CHOOSE i \in 1..Len(us) :
                 /\ us[i][field] = value
                 /\ \A j \in 1..(i - 1) : us[j][field] # value
        ELSE 0

\* an Optional is a sequence of length 0 (None) or 1
Opt(us, i) == IF i = 0 THEN <<>> ELSE <<us[i]>>

get_user_by_username(us, username) == Opt(us, FirstIndex(us, "username", username))

get_user_by_email(us, email) == Opt(us, FirstIndex(us, "email", email))

\* None when no account has the id; User(**...) raises on a stored record that
\* does not validate
get_user_by_id(us, user_id) ==
    LET i == FirstIndex(us, "id", user_id)
    IN IF i = 0 THEN Result(200, "OK", <<>>)
       ELSE IF ~ValidUser(us[i]) THEN Result(500, "Internal Server Error", <<>>)
       ELSE Result(200, "OK", <<StripHash(us[i])>>)

\* the store outcome of a service call: the new list, the new counter, the result
Outcome(us, nid, status, detail, user) ==
    [users |-> us, next_id |-> nid, status |-> status, detail |-> detail, user |-> user]

\* create_user without its username check
create_user_no_username_check(us, nid, user_create, t, salt) ==
    IF get_user_by_email(us, user_create.email) # <<>>
        THEN Outcome(us, nid, 400, "Email already registered", <<>>)
    ELSE LET user_in_db ==
                 [id |-> nid,
                  username |-> user_create.username,
                  email |-> user_create.email,
                  full_name |-> user_create.full_name,
                  role |-> user_create.role,
                  is_active |-> user_create.is_active,
                  hashed_password |-> get_password_hash(user_create.password, salt),
                  created_at |-> t,
                  updated_at |-> NoTime]
         IN Outcome(Append(us, user_in_db), nid + 1, 200, "OK", <<StripHash(user_in_db)>>)

\* create_user numbering the new account by the length of the list
create_user_id_from_len(us, nid, user_create, t, salt) ==
    IF get_user_by_username(us, user_create.username) # <<>>
        THEN Outcome(us, nid, 400, "Username already registered", <<>>)
    ELSE IF get_user_by_email(us, user_create.email) # <<>>
        THEN Outcome(us, nid, 400, "Email already registered", <<>>)
    ELSE LET user_in_db ==
                 [id |-> Len(us) + 1,
                  username |-> user_create.username,
                  email |-> user_create.email,
                  full_name |-> user_create.full_name,
                  role |-> user_create.role,
                  is_active |-> user_create.is_active,
                  hashed_password |-> get_password_hash(user_create.password, salt),
                  created_at |-> t,
                  updated_at |-> NoTime]
         IN Outcome(Append(us, user_in_db), nid + 1, 200, "OK", <<StripHash(user_in_db)>>)

\* create_user hashing only the first characters of the password
create_user_hash_of_prefix(us, nid, user_create, t, salt) ==
    IF get_user_by_username(us, user_create.username) # <<>>
        THEN Outcome(us, nid, 400, "Username already registered", <<>>)
    ELSE IF get_user_by_email(us, user_create.email) # <<>>
        THEN Outcome(us, nid, 400, "Email already registered", <<>>)
    ELSE LET user_in_db ==
                 [id |-> nid,
                  username |-> user_create.username,
                  email |-> user_create.email,
                  full_name |-> user_create.full_name,
                  role |-> user_create.role,
                  is_active |-> user_create.is_active,
                  hashed_password |-> get_password_hash(
                                         SubSeq(user_create.password, 1, MIN_PASSWORD_LENGTH),
                                         salt),
                  created_at |-> t,
                  updated_at |-> NoTime]
         IN Outcome(Append(us, user_in_db), nid + 1, 200, "OK", <<StripHash(user_in_db)>>)

\* create_user testing the email before the username
create_user_email_first(us, nid, user_create, t, salt) ==
    IF get_user_by_email(us, user_create.email) # <<>>
        THEN Outcome(us, nid, 400, "Email already registered", <<>>)
    ELSE IF get_user_by_username(us, user_create.username) # <<>>
        THEN Outcome(us, nid, 400, "Username already registered", <<>>)
    ELSE LET user_in_db ==
                 [id |-> nid,
                  username |-> user_create.username,
                  email |-> user_create.email,
                  full_name |-> user_create.full_name,
                  role |-> user_create.role,
                  is_active |-> user_create.is_active,
                  hashed_password |-> get_password_hash(user_create.password, salt),
                  created_at |-> t,
                  updated_at |-> NoTime]
         IN Outcome(Append(us, user_in_db), nid + 1, 200, "OK", <<StripHash(user_in_db)>>)

create_user(us, nid, user_create, t, salt) ==
    IF get_user_by_username(us, user_create.username) # <<>>
        THEN Outcome(us, nid, 400, "Username already registered", <<>>)
    ELSE IF get_user_by_email(us, user_create.email) # <<>>
        THEN Outcome(us, nid, 400, "Email already registered", <<>>)
    ELSE LET user_in_db ==
                 [id |-> nid,
                  username |-> user_create.username,
                  email |-> user_create.email,
                  full_name |-> user_create.full_name,
                  role |-> user_create.role,
                  is_active |-> user_create.is_active,
                  hashed_password |-> get_password_hash(user_create.password, salt),
                  created_at |-> t,
                  updated_at |-> NoTime]
         IN Outcome(Append(us, user_in_db), nid + 1, 200, "OK", <<StripHash(user_in_db)>>)

\* _create_default_users, run by __init__ on the empty store
DefaultUsers ==
    LET a == create_user(<<>>, 1,
                 UserCreate("admin", "admin@example.com", PW_ADMIN, "Administrator", ADMIN, TRUE),
                 0, "s1")
        j == create_user(a.users, a.next_id,
                 UserCreate("john_doe", "john@example.com", PW_JOHN, "John Doe", USER, TRUE),
                 0, "s1")
    IN j

\* authenticate_user without its verify_password test
authenticate_user_no_verify(us, username, password) ==
    LET user == get_user_by_username(us, username)
    IN IF user = <<>> THEN <<>>
       ELSE user

authenticate_user(us, username, password) ==
    LET user == get_user_by_username(us, username)
    IN IF user = <<>> THEN <<>>
       ELSE IF ~verify_password(password, user[1].hashed_password) THEN <<>>
       ELSE user

\* [User(**user.dict(exclude={"hashed_password"})) for user in
\* self._users[skip:skip + limit]]; User(**...) raises on a stored record that does
\* not validate
get_users(us, skip, limit) ==
    LET lo == IF skip > Len(us) THEN Len(us) ELSE skip
        hi == IF skip + limit > Len(us) THEN Len(us) ELSE skip + limit
    IN IF \E k \in 1..(hi - lo) : ~ValidUser(us[lo + k])
           THEN Result(500, "Internal Server Error", <<>>)
           ELSE Result(200, "OK", [k \in 1..(hi - lo) |-> StripHash(us[lo + k])])

\* update_user writing None to the email, full_name and role the request did not set
update_user_unset_as_none(us, nid, user_id, user_update, t) ==
    LET i == FirstIndex(us, "id", user_id)
    IN IF i = 0 THEN Outcome(us, nid, 404, "User not found", <<>>)
       ELSE LET updated_user ==
                    [f \in DOMAIN us[i] |->
                        IF f = "updated_at" THEN t
                        ELSE IF f \in DOMAIN user_update THEN user_update[f]
                        ELSE IF f \in {"email", "full_name", "role"} THEN NoName
                        ELSE us[i][f]]
            IN IF ~ValidUser(updated_user)
                   THEN Outcome([us EXCEPT ![i] = updated_user], nid, 500,
                                "Internal Server Error", <<>>)
                   ELSE Outcome([us EXCEPT ![i] = updated_user], nid, 200, "OK",
                                <<StripHash(updated_user)>>)

\* user_update is the dict of the fields the request set (exclude_unset=True), None
\* included; the copy is stored before User(**...) validates it, so a None in
\* email, role or is_active stays in the store and the call raises
update_user(us, nid, user_id, user_update, t) ==
    LET i == FirstIndex(us, "id", user_id)
    IN IF i = 0 THEN Outcome(us, nid, 404, "User not found", <<>>)
       ELSE LET updated_user ==
                    [f \in DOMAIN us[i] |->
                        IF f = "updated_at" THEN t
                        ELSE IF f \in DOMAIN user_update THEN user_update[f]
                        ELSE us[i][f]]
            IN IF ~ValidUser(updated_user)
                   THEN Outcome([us EXCEPT ![i] = updated_user], nid, 500,
                                "Internal Server Error", <<>>)
                   ELSE Outcome([us EXCEPT ![i] = updated_user], nid, 200, "OK",
                                <<StripHash(updated_user)>>)

\* delete_user removing the last account of the list in place of the one found
delete_user_pops_last(us, nid, user_id) ==
    LET i == FirstIndex(us, "id", user_id)
    IN IF i = 0 THEN Outcome(us, nid, 404, "User not found", <<>>)
       ELSE Outcome([k \in 1..(Len(us) - 1) |-> us[k]],
                    nid, 200, "User deleted successfully", <<>>)

delete_user(us, nid, user_id) ==
    LET i == FirstIndex(us, "id", user_id)
    IN IF i = 0 THEN Outcome(us, nid, 404, "User not found", <<>>)
       ELSE Outcome([k \in 1..(Len(us) - 1) |-> IF k < i THEN us[k] ELSE us[k + 1]],
                    nid, 200, "User deleted successfully", <<>>)

----------------------------------------------------------------------------
(* app/services/product_service.py *)

\* ProductCategory
ELECTRONICS == "electronics"
SPORTS == "sports"
BOOKS == "books"

\* ProductBase.validate_price; prices are counted in cents
validate_price(v) == ~(v < 0)

\* ProductCreate(name, description, price, category, in_stock=True, stock_quantity=0)
ProductCreate(name, description, price, category, in_stock, stock_quantity) ==
    [name |-> name, description |-> description, price |-> price, category |-> category,
     in_stock |-> in_stock, stock_quantity |-> stock_quantity]

\* the outcome of a product service call: the new list, the new counter, the result
ProductOutcome(ps, nid, status, detail, product) ==
    [products |-> ps, next_id |-> nid, status |-> status, detail |-> detail,
     product |-> product]

create_product(ps, nid, product_create, t) ==
    LET product ==
            [id |-> nid,
             name |-> product_create.name,
             description |-> product_create.description,
             price |-> product_create.price,
             category |-> product_create.category,
             in_stock |-> product_create.in_stock,
             stock_quantity |-> product_create.stock_quantity,
             created_at |-> t,
             updated_at |-> NoTime]
    IN ProductOutcome(Append(ps, product), nid + 1, 200, "OK", <<product>>)

\* _create_sample_products, run by __init__ on the empty store
SampleProducts ==
    LET a == create_product(<<>>, 1,
                 ProductCreate("MacBook Pro", "Apple MacBook Pro 16-inch with M2 chip",
                               249999, ELECTRONICS, TRUE, 10), 0)
        b == create_product(a.products, a.next_id,
                 ProductCreate("Nike Air Max", "Comfortable running shoes",
                               12000, SPORTS, TRUE, 25), 0)
        c == create_product(b.products, b.next_id,
                 ProductCreate("Python Programming Book",
                               "Learn Python programming from scratch",
                               2999, BOOKS, TRUE, 50), 0)
    IN c

\* product_update is the dict of the fields the request set (exclude_unset=True)
update_product(ps, nid, product_id, product_update, t) ==
    LET i == FirstIndex(ps, "id", product_id)
    IN IF i = 0 THEN ProductOutcome(ps, nid, 404, "Product not found", <<>>)
       ELSE LET updated_product ==
                    [f \in DOMAIN ps[i] |->
                        IF f = "updated_at" THEN t
                        ELSE IF f \in DOMAIN product_update THEN product_update[f]
                        ELSE ps[i][f]]
            IN ProductOutcome([ps EXCEPT ![i] = updated_product], nid, 200, "OK",
                              <<updated_product>>)

delete_product(ps, nid, product_id) ==
    LET i == FirstIndex(ps, "id", product_id)
    IN IF i = 0 THEN ProductOutcome(ps, nid, 404, "Product not found", <<>>)
       ELSE ProductOutcome([k \in 1..(Len(ps) - 1) |-> IF k < i THEN ps[k] ELSE ps[k + 1]],
                           nid, 200, "Product deleted successfully", <<>>)

----------------------------------------------------------------------------
(* app/api/auth.py, app/api/users.py: the dependency chain *)

\* the outcome of a dependency: 200 and the resolved User, or the HTTPException raised
Dep(status, detail, user) == [status |-> status, detail |-> detail, user |-> user]

\* get_current_user without its `if user is None` test: user.dict() then fails
get_current_user_no_none_check(auth, us, t) ==
    IF auth = <<>> THEN Dep(401, "Not authenticated", <<>>)
    ELSE LET token_data == verify_token(auth[1], t)
         IN IF ~token_data.ok THEN Dep(401, "Could not validate credentials", <<>>)
            ELSE LET user == get_user_by_username(us, token_data.username)
                 IN IF user = <<>>
                        THEN Dep(500, "Internal Server Error", <<>>)
                    ELSE IF ~ValidUser(user[1])
                        THEN Dep(500, "Internal Server Error", <<>>)
                        ELSE Dep(200, "OK", <<StripHash(user[1])>>)

\* oauth2_scheme + get_current_user; auth is the Authorization header, <<>> when absent;
\* User(**user.dict(exclude={"hashed_password"})) raises on a stored record that does
\* not validate
get_current_user(auth, us, t) ==
    IF auth = <<>> THEN Dep(401, "Not authenticated", <<>>)
    ELSE LET token_data == verify_token(auth[1], t)
         IN IF ~token_data.ok THEN Dep(401, "Could not validate credentials", <<>>)
            ELSE LET user == get_user_by_username(us, token_data.username)
                 IN IF user = <<>>
                        THEN Dep(401, "Could not validate credentials", <<>>)
                    ELSE IF ~ValidUser(user[1])
                        THEN Dep(500, "Internal Server Error", <<>>)
                        ELSE Dep(200, "OK", <<StripHash(user[1])>>)

\* get_current_active_user raising 403 for an inactive user
get_current_active_user_forbidden(auth, us, t) ==
    LET current_user == get_current_user(auth, us, t)
    IN IF current_user.status # 200 THEN current_user
       ELSE IF ~current_user.user[1].is_active
           THEN Dep(403, "Inactive user", current_user.user)
       ELSE current_user

get_current_active_user(auth, us, t) ==
    LET current_user == get_current_user(auth, us, t)
    IN IF current_user.status # 200 THEN current_user
       ELSE IF ~current_user.user[1].is_active
           THEN Dep(400, "Inactive user", current_user.user)
       ELSE current_user

\* get_admin_user testing the role before the account is known to be active
get_admin_user_role_first(auth, us, t) ==
    LET current_user == get_current_user(auth, us, t)
    IN IF current_user.status # 200 THEN current_user
       ELSE IF current_user.user[1].role # ADMIN
           THEN Dep(403, "Not enough permissions", current_user.user)
       ELSE IF ~current_user.user[1].is_active
           THEN Dep(400, "Inactive user", current_user.user)
       ELSE current_user

\* users.py and products.py each define this dependency, with the same body
get_admin_user(auth, us, t) ==
    LET current_user == get_current_active_user(auth, us, t)
    IN IF current_user.status # 200 THEN current_user
       ELSE IF current_user.user[1].role # ADMIN
           THEN Dep(403, "Not enough permissions", current_user.user)
       ELSE current_user

----------------------------------------------------------------------------
(* Requests the model sends *)

Usernames == {"admin", "john_doe", "alice"}
Emails == {"admin@example.com", "john@example.com", "alice@x.com"}

\* SpecStore: bodies of POST /auth/register
StoreBodies ==
    {UserCreate(u, e, p, NoName, USER, TRUE) :
        u \in {"john_doe", "alice"}, e \in {"john@example.com", "alice@x.com"},
        p \in {PW_SECRET1, PW_SHORT}}

\* Spec: bodies of POST /auth/register and POST /users/
RegisterBodies ==
    {UserCreate("john_doe", "john@example.com", p, NoName, USER, TRUE) :
        p \in {PW_JOHN, PW_SHORT}}

\* the empty dict
NoFields == [f \in {} |-> f]

\* SpecStore: the credentials authenticate_user is called with
StoreLogins ==
    [username : Usernames, password : {PW_ADMIN, PW_JOHN, PW_SECRET1}]

\* SpecStore: the fields an update sets
StoreUpdates ==
    {[email |-> "admin@example.com"],
     [full_name |-> NoName, role |-> USER, is_active |-> FALSE],
     [email |-> NoName]}

\* Spec: bodies of PUT /users/{user_id}; {"email": null} passes UserUpdate, whose
\* fields are all Optional
UpdateBodies == {[is_active |-> FALSE], [role |-> ADMIN], [email |-> NoName]}

\* SpecAdmin: the bodies after which get_current_active_user no longer
\* lets the account through
GuardUpdates == {[is_active |-> FALSE], [email |-> NoName]}

\* form data of POST /auth/token
LoginForms ==
    {[username |-> "admin", password |-> PW_ADMIN],
     [username |-> "john_doe", password |-> PW_JOHN],
     [username |-> "john_doe", password |-> PW_ADMIN],
     [username |-> "alice", password |-> PW_JOHN]}

\* a token that this server's key did not sign
ForgedToken == [sub |-> "admin", exp |-> MaxTime + ACCESS_TOKEN_EXPIRE_MINUTES, sig |-> "forged"]

\* a token for admin signed with this key whose lifetime ended before the run began
StaleToken == create_access_token([sub |-> "admin"], ACCESS_TOKEN_EXPIRE_MINUTES,
                                  0 - ACCESS_TOKEN_EXPIRE_MINUTES - 1)

\* Authorization headers: none, a forged token, a stale one, a token issued earlier
AuthHeaders == {<<>>, <<ForgedToken>>, <<StaleToken>>} \cup {<<x.token>> : x \in tokens}

\* path parameter user_id
StoreIds == 1..MaxId
UserIds == 1..MaxGuardId

Skips == {0}
Limits == {100}

\* SpecStore: skip and limit of get_users: the first positions, the last one and one
\* past it; a limit of one, of two and the default
StoreSkips == {0, 1, MaxId, MaxId + 1}
StoreLimits == {1, 2, 100}

\* SpecAdmin: bodies of POST /products/
ProductBodies ==
    {ProductCreate("Desk Lamp", "None", price, "home", TRUE, 0) : price \in {1999, -1}}

\* SpecAdmin: bodies of PUT /products/{product_id}
ProductUpdates == {[in_stock |-> FALSE]}

\* SpecAdmin: path parameter product_id: the last product before the store is full
ProductIds == {MaxProductId - 1}

\* str.lower() on the ASCII letters; every other character is mapped to itself
UPPERCASE == <<"A", "B", "C", "D", "E", "F", "G", "H", "I", "J", "K", "L", "M",
               "N", "O", "P", "Q", "R", "S", "T", "U", "V", "W", "X", "Y", "Z">>
LOWERCASE == <<"a", "b", "c", "d", "e", "f", "g", "h", "i", "j", "k", "l", "m",
               "n", "o", "p", "q", "r", "s", "t", "u", "v", "w", "x", "y", "z">>

LowerChar(c) ==
    IF \E i \in DOMAIN UPPERCASE : UPPERCASE[i] = c
        THEN LOWERCASE[CHOOSE i \in DOMAIN UPPERCASE : UPPERCASE[i] = c]
        ELSE c

\* str.lower() of a string given as the sequence of its characters
Lower(ext) == [i \in DOMAIN ext |-> LowerChar(ext[i])]

\* extensions are character sequences, so that lower() is computed
EXT_JPG == <<".", "j", "p", "g">>
EXT_JPEG == <<".", "j", "p", "e", "g">>
EXT_PNG == <<".", "p", "n", "g">>
EXT_GIF == <<".", "g", "i", "f">>
EXT_PDF == <<".", "p", "d", "f">>
EXT_TXT == <<".", "t", "x", "t">>
EXT_DOCX == <<".", "d", "o", "c", "x">>
EXT_XLSX == <<".", "x", "l", "s", "x">>

ALLOWED_EXTENSIONS ==
    {EXT_JPG, EXT_JPEG, EXT_PNG, EXT_GIF, EXT_PDF, EXT_TXT, EXT_DOCX, EXT_XLSX}

\* uploaded files: name, extension as os.path.splitext(filename)[1] gives it,
\* length of the content: two small ones, one without a name, one of 2 MiB, one
\* above MAX_FILE_SIZE
Files ==
    {[filename |-> "a.TXT", ext |-> <<".", "T", "X", "T">>, size |-> 1],
     [filename |-> "a.exe", ext |-> <<".", "e", "x", "e">>, size |-> 1],
     [filename |-> "", ext |-> <<>>, size |-> 1],
     [filename |-> "c.png", ext |-> EXT_PNG, size |-> 2 * SPOOL_MAX_SIZE],
     [filename |-> "b.pdf", ext |-> EXT_PDF, size |-> MAX_FILE_SIZE + 1]}

\* the lists of files of POST /upload/multiple: a refused file before a small good
\* one, a file that is too large before a good one of 2 MiB, and one file more
\* than is allowed
FileLists ==
    {<<[filename |-> "a.exe", ext |-> <<".", "e", "x", "e">>, size |-> 1],
       [filename |-> "a.TXT", ext |-> <<".", "T", "X", "T">>, size |-> 1]>>,
     <<[filename |-> "b.pdf", ext |-> EXT_PDF, size |-> MAX_FILE_SIZE + 1],
       [filename |-> "c.png", ext |-> EXT_PNG, size |-> 2 * SPOOL_MAX_SIZE]>>,
     [i \in 1..(MAX_FILES_PER_REQUEST + 1) |->
         [filename |-> "a.TXT", ext |-> <<".", "T", "X", "T">>, size |-> 1]]}

\* `await file.read()` hands the event loop to other requests only when the
\* content was rolled over to disk, which is read in the thread pool; a content
\* held in memory is returned at once
Suspends(file) == file.size > SPOOL_MAX_SIZE

\* validate_file: 200 when it returns, else the HTTPException it raises.  The
\* detail of a refused type ends with ', '.join(ALLOWED_EXTENSIONS): the extensions
\* in the iteration order of the set, which differs from run to run; the value
\* holds them as the set they are joined from, every order standing for itself
validate_file(file) ==
    IF file.filename = "" THEN Result(400, "No file name provided", <<>>)
    ELSE IF Lower(file.ext) \notin ALLOWED_EXTENSIONS
        THEN Result(400, "File type not allowed. Allowed types: ",
                    <<[joined |-> ALLOWED_EXTENSIONS]>>)
    ELSE Result(200, "OK", <<>>)

----------------------------------------------------------------------------
(* The endpoints *)

\* the response to a request: the endpoint, the Authorization header it carried,
\* the status and detail, the User the dependencies resolved, the body, and the
\* time the request was served
Response(op, auth, status, detail, principal, body) ==
    [op |-> op, auth |-> auth, status |-> status, detail |-> detail,
     principal |-> principal, body |-> body, at |-> now]

StoreUnchanged == UNCHANGED <<users, next_id, returned>>
\* what the endpoints without an await leave alone: the register requests of
\* SpecConc, the suspended uploads, the codec of the build
ConcUnchanged == UNCHANGED <<pc, req, out, in_flight, expired_at_exp>>
ProductsUnchanged == UNCHANGED <<products, product_next_id>>

\* timedelta(minutes=settings.access_token_expire_minutes)
access_token_expires == ACCESS_TOKEN_EXPIRE_MINUTES

\* POST /auth/token; tokens remembers the token, who asked for it (sub), the account
\* that authenticated (acct) and the time of issue (iat)
login_for_access_token(form_data, cap) ==
    LET user == authenticate_user(users, form_data.username, form_data.password)
    IN /\ IF user = <<>>
              THEN /\ resp' = Response("login", <<>>, 401, "Incorrect username or password",
                                       <<>>, <<>>)
                   /\ UNCHANGED tokens
              ELSE LET access_token ==
                           create_access_token([sub |-> user[1].username],
                                               access_token_expires, now)
                       kept == [token |-> access_token, sub |-> form_data.username,
                                acct |-> user[1].id, iat |-> now]
                   IN /\ kept \in tokens \/ Cardinality(tokens) < cap
                      /\ tokens' = tokens \cup {kept}
                      /\ resp' = Response("login", <<>>, 200, "bearer", <<>>, <<access_token>>)
       /\ StoreUnchanged
       /\ UNCHANGED <<now, uploads>>
       /\ ConcUnchanged
       /\ ProductsUnchanged

\* the store part of a create_user call made by an endpoint
ApplyCreate(op, auth, principal, user_create, max_id) ==
    \E salt \in Salts :
        LET r == create_user(users, next_id, user_create, now, salt)
        IN /\ r.status = 200 => next_id <= max_id
           /\ users' = r.users
           /\ next_id' = r.next_id
           /\ returned' = IF r.status = 200 THEN returned \cup {r.user[1].id} ELSE returned
           /\ resp' = Response(op, auth, r.status, r.detail, principal, r.user)

\* POST /auth/register with a UserCreate whose validator does not run
register_user_unvalidated(user_create, max_id) ==
    /\ ApplyCreate("register", <<>>, <<>>, user_create, max_id)
    /\ UNCHANGED <<now, tokens, uploads>>
    /\ ConcUnchanged
    /\ ProductsUnchanged

\* POST /auth/register; the body is validated before the handler runs
register_user(user_create, max_id) ==
    /\ IF ~validate_password(user_create.password)
           THEN /\ resp' = Response("register", <<>>, 422,
                                    "Password must be at least 6 characters long", <<>>, <<>>)
                /\ StoreUnchanged
           ELSE ApplyCreate("register", <<>>, <<>>, user_create, max_id)
    /\ UNCHANGED <<now, tokens, uploads>>
    /\ ConcUnchanged
    /\ ProductsUnchanged

\* GET /auth/me
read_users_me(auth) ==
    LET current_user == get_current_active_user(auth, users, now)
    IN /\ resp' = Response("read_users_me", auth, current_user.status, current_user.detail,
                           current_user.user,
                           IF current_user.status = 200 THEN current_user.user ELSE <<>>)
       /\ StoreUnchanged
       /\ UNCHANGED <<now, tokens, uploads>>
       /\ ConcUnchanged
       /\ ProductsUnchanged

\* GET /users/
get_users_endpoint(auth, skip, limit) ==
    LET current_user == get_current_active_user(auth, users, now)
        r == get_users(users, skip, limit)
    IN /\ resp' = IF current_user.status # 200
                      THEN Response("get_users", auth, current_user.status,
                                    current_user.detail, current_user.user, <<>>)
                      ELSE Response("get_users", auth, r.status, r.detail,
                                    current_user.user, r.value)
       /\ StoreUnchanged
       /\ UNCHANGED <<now, tokens, uploads>>
       /\ ConcUnchanged
       /\ ProductsUnchanged

\* GET /users/{user_id}
get_user(auth, user_id) ==
    LET current_user == get_current_active_user(auth, users, now)
        user == get_user_by_id(users, user_id)
    IN /\ resp' = IF current_user.status # 200
                      THEN Response("get_user", auth, current_user.status,
                                    current_user.detail, current_user.user, <<>>)
                  ELSE IF user.status # 200
                      THEN Response("get_user", auth, user.status, user.detail,
                                    current_user.user, <<>>)
                  ELSE IF user.value = <<>>
                      THEN Response("get_user", auth, 404, "User not found",
                                    current_user.user, <<>>)
                  ELSE Response("get_user", auth, 200, "OK", current_user.user, user.value)
       /\ StoreUnchanged
       /\ UNCHANGED <<now, tokens, uploads>>
       /\ ConcUnchanged
       /\ ProductsUnchanged

\* POST /users/; the dependencies are solved before the body is validated
create_user_endpoint(auth, user_create) ==
    LET current_user == get_admin_user(auth, users, now)
    IN /\ IF current_user.status # 200
              THEN /\ resp' = Response("create_user", auth, current_user.status,
                                       current_user.detail, current_user.user, <<>>)
                   /\ StoreUnchanged
          ELSE IF ~validate_password(user_create.password)
              THEN /\ resp' = Response("create_user", auth, 422,
                                       "Password must be at least 6 characters long",
                                       current_user.user, <<>>)
                   /\ StoreUnchanged
          ELSE ApplyCreate("create_user", auth, current_user.user, user_create, MaxGuardId)
       /\ UNCHANGED <<now, tokens, uploads>>
       /\ ConcUnchanged
       /\ ProductsUnchanged

\* PUT /users/{user_id} without the test that the target is the caller or the caller admin
update_user_endpoint_no_owner_check(auth, user_id, user_update) ==
    LET current_user == get_current_active_user(auth, users, now)
    IN /\ IF current_user.status # 200
              THEN /\ resp' = Response("update_user", auth, current_user.status,
                                       current_user.detail, current_user.user, <<>>)
                   /\ StoreUnchanged
          ELSE LET r == update_user(users, next_id, user_id, user_update, now)
               IN /\ users' = r.users
                  /\ next_id' = r.next_id
                  /\ resp' = Response("update_user", auth, r.status, r.detail,
                                      current_user.user, r.user)
                  /\ UNCHANGED returned
       /\ UNCHANGED <<now, tokens, uploads>>
       /\ ConcUnchanged
       /\ ProductsUnchanged

\* PUT /users/{user_id}
update_user_endpoint(auth, user_id, user_update) ==
    LET current_user == get_current_active_user(auth, users, now)
    IN /\ IF current_user.status # 200
              THEN /\ resp' = Response("update_user", auth, current_user.status,
                                       current_user.detail, current_user.user, <<>>)
                   /\ StoreUnchanged
          ELSE IF current_user.user[1].id # user_id /\ current_user.user[1].role # ADMIN
              THEN /\ resp' = Response("update_user", auth, 403, "Not enough permissions",
                                       current_user.user, <<>>)
                   /\ StoreUnchanged
          ELSE LET r == update_user(users, next_id, user_id, user_update, now)
               IN /\ users' = r.users
                  /\ next_id' = r.next_id
                  /\ resp' = Response("update_user", auth, r.status, r.detail,
                                      current_user.user, r.user)
                  /\ UNCHANGED returned
       /\ UNCHANGED <<now, tokens, uploads>>
       /\ ConcUnchanged
       /\ ProductsUnchanged

\* DELETE /users/{user_id}
delete_user_endpoint(auth, user_id) ==
    LET current_user == get_admin_user(auth, users, now)
    IN /\ IF current_user.status # 200
              THEN /\ resp' = Response("delete_user", auth, current_user.status,
                                       current_user.detail, current_user.user, <<>>)
                   /\ StoreUnchanged
          ELSE LET r == delete_user(users, next_id, user_id)
               IN /\ users' = r.users
                  /\ next_id' = r.next_id
                  /\ resp' = Response("delete_user", auth, r.status, r.detail,
                                      current_user.user, <<>>)
                  /\ UNCHANGED returned
       /\ UNCHANGED <<now, tokens, uploads>>
       /\ ConcUnchanged
       /\ ProductsUnchanged

\* upload_file from the return of file.read(): the size is tested, the file is
\* written and the request is answered; the store is not read again
upload_file_after_read(auth, current_user, file) ==
    IF file.size > MAX_FILE_SIZE
        THEN /\ resp' = Response("upload_file", auth, 400,
                                 "File too large. Maximum size: 10MB", current_user, <<>>)
             /\ UNCHANGED uploads
        ELSE /\ uploads < MaxUploads
             /\ uploads' = uploads + 1
             /\ resp' = Response("upload_file", auth, 200, "File uploaded successfully",
                                 current_user, <<>>)

\* POST /upload/single without its Depends(get_current_active_user)
upload_file_unguarded(auth, file) ==
    LET valid == validate_file(file)
    IN /\ IF valid.status # 200
              THEN /\ resp' = Response("upload_file", auth, valid.status, valid.detail,
                                       <<>>, valid.value)
                   /\ UNCHANGED <<in_flight, uploads>>
          ELSE IF ~Suspends(file)
              THEN /\ upload_file_after_read(auth, <<>>, file)
                   /\ UNCHANGED in_flight
          ELSE /\ Cardinality(in_flight) < MaxInFlight
               /\ in_flight' = in_flight \cup
                                   {[op |-> "upload_file", auth |-> auth,
                                     principal |-> <<>>, file |-> file,
                                     rest |-> <<>>, responses |-> <<>>]}
               /\ UNCHANGED <<resp, uploads>>
       /\ StoreUnchanged
       /\ UNCHANGED <<now, tokens, pc, req, out, expired_at_exp>>
       /\ ProductsUnchanged

\* POST /upload/single: the dependency and validate_file run, then
\* `content = await file.read()`: a content held in memory is returned at once and
\* the handler runs to its end; on a content on disk the handler is suspended and
\* other requests are served
upload_file(auth, file) ==
    LET current_user == get_current_active_user(auth, users, now)
        valid == validate_file(file)
    IN /\ IF current_user.status # 200
              THEN /\ resp' = Response("upload_file", auth, current_user.status,
                                       current_user.detail, current_user.user, <<>>)
                   /\ UNCHANGED <<in_flight, uploads>>
          ELSE IF valid.status # 200
              THEN /\ resp' = Response("upload_file", auth, valid.status, valid.detail,
                                       current_user.user, valid.value)
                   /\ UNCHANGED <<in_flight, uploads>>
          ELSE IF ~Suspends(file)
              THEN /\ upload_file_after_read(auth, current_user.user, file)
                   /\ UNCHANGED in_flight
          ELSE /\ Cardinality(in_flight) < MaxInFlight
               /\ in_flight' = in_flight \cup
                                   {[op |-> "upload_file", auth |-> auth,
                                     principal |-> current_user.user, file |-> file,
                                     rest |-> <<>>, responses |-> <<>>]}
               /\ UNCHANGED <<resp, uploads>>
       /\ StoreUnchanged
       /\ UNCHANGED <<now, tokens, pc, req, out, expired_at_exp>>
       /\ ProductsUnchanged

\* POST /upload/single, a handler suspended at file.read() goes on
upload_file_resume(r) ==
    /\ r \in in_flight
    /\ r.op = "upload_file"
    /\ upload_file_after_read(r.auth, r.principal, r.file)
    /\ in_flight' = in_flight \ {r}
    /\ StoreUnchanged
    /\ UNCHANGED <<now, tokens, pc, req, out, expired_at_exp>>
    /\ ProductsUnchanged

\* UploadResponse(message=..., file_info=FileInfo(filename=...)); a message built
\* by an f-string is the sequence of its parts, followed by what the detail of
\* validate_file joins
UploadResponse(message, joined, filename) ==
    [message |-> message, joined |-> joined, filename |-> filename]

\* upload_files from the return of file.read(): the entry for a file that is too
\* large, else the file is written and acknowledged
AfterRead(file) ==
    IF file.size > MAX_FILE_SIZE
        THEN [written |-> 0,
              response |-> UploadResponse(<<"File ", file.filename, " too large">>, <<>>,
                                          file.filename)]
        ELSE [written |-> 1,
              response |-> UploadResponse(<<"File uploaded successfully">>, <<>>,
                                          file.filename)]

\* the loop of upload_files from the file at the head of rest up to the next
\* file.read() that suspends: a file validate_file refuses adds its error response,
\* a content held in memory is read and handled at once, a content on disk is
\* waited for; written counts the files written on the way
RECURSIVE NextRead(_, _, _)
NextRead(rest, responses, written) ==
    IF rest = <<>>
        THEN [reading |-> <<>>, rest |-> <<>>, responses |-> responses, written |-> written]
    ELSE LET file == Head(rest)
             valid == validate_file(file)
         IN IF valid.status # 200
                THEN NextRead(Tail(rest),
                              Append(responses,
                                     UploadResponse(<<"Error uploading ", file.filename,
                                                      ": ", valid.detail>>, valid.value,
                                                    IF file.filename = ""
                                                        THEN "unknown"
                                                        ELSE file.filename)),
                              written)
            ELSE IF Suspends(file)
                THEN [reading |-> <<file>>, rest |-> Tail(rest), responses |-> responses,
                      written |-> written]
            ELSE NextRead(Tail(rest), Append(responses, AfterRead(file).response),
                          written + AfterRead(file).written)

\* POST /upload/multiple up to its first file.read() that suspends, or to its end
\* when none does
upload_files(auth, files) ==
    LET current_user == get_current_active_user(auth, users, now)
        n == NextRead(files, <<>>, 0)
    IN /\ IF current_user.status # 200
              THEN /\ resp' = Response("upload_files", auth, current_user.status,
                                       current_user.detail, current_user.user, <<>>)
                   /\ UNCHANGED <<in_flight, uploads>>
          ELSE IF Len(files) > MAX_FILES_PER_REQUEST
              THEN /\ resp' = Response("upload_files", auth, 400,
                                       "Maximum 5 files allowed per request",
                                       current_user.user, <<>>)
                   /\ UNCHANGED <<in_flight, uploads>>
          ELSE /\ uploads + n.written <= MaxUploads
               /\ uploads' = uploads + n.written
               /\ IF n.reading = <<>>
                      THEN /\ resp' = Response("upload_files", auth, 200, "OK",
                                               current_user.user, n.responses)
                           /\ UNCHANGED in_flight
                      ELSE /\ Cardinality(in_flight) < MaxInFlight
                           /\ in_flight' = in_flight \cup
                                               {[op |-> "upload_files", auth |-> auth,
                                                 principal |-> current_user.user,
                                                 file |-> n.reading[1], rest |-> n.rest,
                                                 responses |-> n.responses]}
                           /\ UNCHANGED resp
       /\ StoreUnchanged
       /\ UNCHANGED <<now, tokens, pc, req, out, expired_at_exp>>
       /\ ProductsUnchanged

\* POST /upload/multiple, a handler suspended at file.read() goes on to the next
\* file.read() that suspends, or to the end of the loop
upload_files_resume(r) ==
    /\ r \in in_flight
    /\ r.op = "upload_files"
    /\ LET n == NextRead(r.rest, Append(r.responses, AfterRead(r.file).response),
                         AfterRead(r.file).written)
       IN /\ uploads + n.written <= MaxUploads
          /\ uploads' = uploads + n.written
          /\ IF n.reading = <<>>
                 THEN /\ resp' = Response("upload_files", r.auth, 200, "OK", r.principal,
                                          n.responses)
                      /\ in_flight' = in_flight \ {r}
                 ELSE /\ in_flight' = (in_flight \ {r}) \cup
                                          {[r EXCEPT !.file = n.reading[1], !.rest = n.rest,
                                                     !.responses = n.responses]}
                      /\ UNCHANGED resp
    /\ StoreUnchanged
    /\ UNCHANGED <<now, tokens, pc, req, out, expired_at_exp>>
    /\ ProductsUnchanged

\* POST /products/; the dependencies are solved before the body is validated
create_product_endpoint(auth, product_create) ==
    LET current_user == get_admin_user(auth, users, now)
    IN /\ IF current_user.status # 200
              THEN /\ resp' = Response("create_product", auth, current_user.status,
                                       current_user.detail, current_user.user, <<>>)
                   /\ ProductsUnchanged
          ELSE IF ~validate_price(product_create.price)
              THEN /\ resp' = Response("create_product", auth, 422, "Price must be positive",
                                       current_user.user, <<>>)
                   /\ ProductsUnchanged
          ELSE LET r == create_product(products, product_next_id, product_create, now)
               IN /\ product_next_id <= MaxProductId
                  /\ products' = r.products
                  /\ product_next_id' = r.next_id
                  /\ resp' = Response("create_product", auth, r.status, r.detail,
                                      current_user.user, r.product)
       /\ StoreUnchanged
       /\ UNCHANGED <<now, tokens, uploads>>
       /\ ConcUnchanged

\* PUT /products/{product_id}
update_product_endpoint(auth, product_id, product_update) ==
    LET current_user == get_admin_user(auth, users, now)
    IN /\ IF current_user.status # 200
              THEN /\ resp' = Response("update_product", auth, current_user.status,
                                       current_user.detail, current_user.user, <<>>)
                   /\ ProductsUnchanged
          ELSE LET r == update_product(products, product_next_id, product_id,
                                       product_update, now)
               IN /\ products' = r.products
                  /\ product_next_id' = r.next_id
                  /\ resp' = Response("update_product", auth, r.status, r.detail,
                                      current_user.user, r.product)
       /\ StoreUnchanged
       /\ UNCHANGED <<now, tokens, uploads>>
       /\ ConcUnchanged

\* DELETE /products/{product_id} behind get_current_active_user instead of get_admin_user
delete_product_endpoint_active_only(auth, product_id) ==
    LET current_user == get_current_active_user(auth, users, now)
    IN /\ IF current_user.status # 200
              THEN /\ resp' = Response("delete_product", auth, current_user.status,
                                       current_user.detail, current_user.user, <<>>)
                   /\ ProductsUnchanged
          ELSE LET r == delete_product(products, product_next_id, product_id)
               IN /\ products' = r.products
                  /\ product_next_id' = r.next_id
                  /\ resp' = Response("delete_product", auth, r.status, r.detail,
                                      current_user.user, <<>>)
       /\ StoreUnchanged
       /\ UNCHANGED <<now, tokens, uploads>>
       /\ ConcUnchanged

\* DELETE /products/{product_id}
delete_product_endpoint(auth, product_id) ==
    LET current_user == get_admin_user(auth, users, now)
    IN /\ IF current_user.status # 200
              THEN /\ resp' = Response("delete_product", auth, current_user.status,
                                       current_user.detail, current_user.user, <<>>)
                   /\ ProductsUnchanged
          ELSE LET r == delete_product(products, product_next_id, product_id)
               IN /\ products' = r.products
                  /\ product_next_id' = r.next_id
                  /\ resp' = Response("delete_product", auth, r.status, r.detail,
                                      current_user.user, <<>>)
       /\ StoreUnchanged
       /\ UNCHANGED <<now, tokens, uploads>>
       /\ ConcUnchanged

\* time passes between requests
Tick(d) ==
    /\ now + d <= MaxTime
    /\ now' = now + d
    /\ UNCHANGED <<users, next_id, tokens, uploads, resp, returned>>
    /\ ConcUnchanged
    /\ ProductsUnchanged

----------------------------------------------------------------------------
(* The server: the seeded store, then any sequence of requests *)

NoResponse == Response("none", <<>>, 0, "", <<>>, <<>>)

\* the clock starts at 0 and moves in SpecToken alone.  No token has exp = 0
\* (StaleToken ended before, an issued token ends ACCESS_TOKEN_EXPIRE_MINUTES after
\* its issue), so where the clock stands still verify_token is never asked at the
\* instant exp and expired_at_exp is not read; InitToken leaves it open
Init ==
    /\ users = DefaultUsers.users
    /\ next_id = DefaultUsers.next_id
    /\ now = 0
    /\ tokens = {}
    /\ uploads = 0
    /\ resp = NoResponse
    /\ returned = {users[i].id : i \in 1..Len(users)}
    /\ products = SampleProducts.products
    /\ product_next_id = SampleProducts.next_id
    /\ in_flight = {}
    /\ expired_at_exp = FALSE
    /\ pc = <<>>
    /\ req = <<>>
    /\ out = <<>>

Next ==
    \/ \E form_data \in LoginForms : login_for_access_token(form_data, MaxTokens)
    \/ \E user_create \in RegisterBodies : register_user(user_create, MaxGuardId)
    \/ \E auth \in AuthHeaders : read_users_me(auth)
    \/ \E auth \in AuthHeaders, skip \in Skips, limit \in Limits :
           get_users_endpoint(auth, skip, limit)
    \/ \E auth \in AuthHeaders, user_id \in UserIds : get_user(auth, user_id)
    \/ \E auth \in AuthHeaders, user_create \in RegisterBodies :
           create_user_endpoint(auth, user_create)
    \/ \E auth \in AuthHeaders, user_id \in UserIds, user_update \in UpdateBodies :
           update_user_endpoint(auth, user_id, user_update)
    \/ \E auth \in AuthHeaders, user_id \in UserIds : delete_user_endpoint(auth, user_id)

Spec == Init /\ [][Next]_vars

----------------------------------------------------------------------------
(* SpecUpload: every endpoint behind get_current_active_user, the two upload    *)
(* endpoints with their handlers suspended at `await file.read()` while the    *)
(* event loop serves other requests, and the logins, deletions and updates     *)
(* that change the account a request is made for                               *)

\* SpecUpload: the update that takes an account out of service
UploadUpdates == {[is_active |-> FALSE]}

NextUpload ==
    \/ \E form_data \in LoginForms : login_for_access_token(form_data, MaxTokens)
    \/ \E auth \in AuthHeaders : read_users_me(auth)
    \/ \E auth \in AuthHeaders, skip \in Skips, limit \in Limits :
           get_users_endpoint(auth, skip, limit)
    \/ \E auth \in AuthHeaders, user_id \in UserIds : get_user(auth, user_id)
    \/ \E auth \in AuthHeaders, user_id \in UserIds, user_update \in UploadUpdates :
           update_user_endpoint(auth, user_id, user_update)
    \/ \E auth \in AuthHeaders, user_id \in UserIds : delete_user_endpoint(auth, user_id)
    \/ \E auth \in AuthHeaders, file \in Files : upload_file(auth, file)
    \/ \E r \in in_flight : upload_file_resume(r)
    \/ \E auth \in AuthHeaders, files \in FileLists : upload_files(auth, files)
    \/ \E r \in in_flight : upload_files_resume(r)

SpecUpload == Init /\ [][NextUpload]_vars

----------------------------------------------------------------------------
(* SpecStore: the Credential Store under any sequence of register, update and  *)
(* delete calls, as the handlers make them once the dependencies have passed   *)

\* UserService.update_user called with the fields an update sets
StoreUpdate(user_id, user_update) ==
    LET r == update_user(users, next_id, user_id, user_update, now)
    IN /\ users' = r.users
       /\ next_id' = r.next_id
       /\ resp' = Response("update", <<>>, r.status, r.detail, <<>>, r.user)
       /\ UNCHANGED <<returned, now, tokens, uploads>>
       /\ ConcUnchanged
       /\ ProductsUnchanged

\* UserService.delete_user
StoreDelete(user_id) ==
    LET r == delete_user(users, next_id, user_id)
    IN /\ users' = r.users
       /\ next_id' = r.next_id
       /\ resp' = Response("delete", <<>>, r.status, r.detail, <<>>, <<>>)
       /\ UNCHANGED <<returned, now, tokens, uploads>>
       /\ ConcUnchanged
       /\ ProductsUnchanged

\* UserService.authenticate_user, answered as login_for_access_token answers it:
\* None becomes 401 "Incorrect username or password"
StoreAuthenticate(form_data) ==
    LET user == authenticate_user(users, form_data.username, form_data.password)
    IN /\ resp' = IF user = <<>>
                      THEN Response("authenticate", <<>>, 401,
                                    "Incorrect username or password", <<>>, <<>>)
                      ELSE Response("authenticate", <<>>, 200, "OK", <<>>, user)
       /\ StoreUnchanged
       /\ UNCHANGED <<now, tokens, uploads>>
       /\ ConcUnchanged
       /\ ProductsUnchanged

\* UserService.get_users
StoreList(skip, limit) ==
    /\ LET r == get_users(users, skip, limit)
       IN resp' = Response("list", <<>>, r.status, r.detail, <<>>, r.value)
    /\ StoreUnchanged
    /\ UNCHANGED <<now, tokens, uploads>>
    /\ ConcUnchanged
    /\ ProductsUnchanged

NextStore ==
    \/ \E user_create \in StoreBodies : register_user(user_create, MaxId)
    \/ \E skip \in StoreSkips, limit \in StoreLimits : StoreList(skip, limit)
    \/ \E form_data \in StoreLogins : StoreAuthenticate(form_data)
    \/ \E user_id \in StoreIds, user_update \in StoreUpdates : StoreUpdate(user_id, user_update)
    \/ \E user_id \in StoreIds : StoreDelete(user_id)

SpecStore == Init /\ [][NextStore]_vars

----------------------------------------------------------------------------
(* SpecAdmin: the admin-only endpoints of users.py and products.py, with the   *)
(* logins and the updates that change who is active and who is admin           *)

NextAdmin ==
    \/ \E form_data \in LoginForms : login_for_access_token(form_data, MaxTokens)
    \/ \E auth \in AuthHeaders, user_id \in UserIds, user_update \in GuardUpdates :
           update_user_endpoint(auth, user_id, user_update)
    \/ \E auth \in AuthHeaders, user_create \in RegisterBodies :
           create_user_endpoint(auth, user_create)
    \/ \E auth \in AuthHeaders, user_id \in UserIds : delete_user_endpoint(auth, user_id)
    \/ \E auth \in AuthHeaders, product_create \in ProductBodies :
           create_product_endpoint(auth, product_create)
    \/ \E auth \in AuthHeaders, product_id \in ProductIds, product_update \in ProductUpdates :
           update_product_endpoint(auth, product_id, product_update)
    \/ \E auth \in AuthHeaders, product_id \in ProductIds :
           delete_product_endpoint(auth, product_id)

SpecAdmin == Init /\ [][NextAdmin]_vars

----------------------------------------------------------------------------
(* SpecToken: one token from issue to expiry, the clock ticking minute by     *)
(* minute, in a build that refuses a token at the instant exp and in one that *)
(* still accepts it                                                           *)

InitToken ==
    /\ users = DefaultUsers.users
    /\ next_id = DefaultUsers.next_id
    /\ now = 0
    /\ tokens = {}
    /\ uploads = 0
    /\ resp = NoResponse
    /\ returned = {users[i].id : i \in 1..Len(users)}
    /\ products = SampleProducts.products
    /\ product_next_id = SampleProducts.next_id
    /\ in_flight = {}
    /\ expired_at_exp \in BOOLEAN
    /\ pc = <<>>
    /\ req = <<>>
    /\ out = <<>>

NextToken ==
    \/ \E form_data \in LoginForms : login_for_access_token(form_data, 1)
    \/ \E auth \in AuthHeaders : read_users_me(auth)
    \/ Tick(1)

SpecToken == InitToken /\ [][NextToken]_vars

----------------------------------------------------------------------------
(* SpecConc: two POST /auth/register requests in flight at once.  The event    *)
(* loop runs the body validation of each and then its handler; the handler has *)
(* no await, so each of the two steps is atomic and they interleave freely.    *)

Procs == {"p1", "p2"}

\* the bodies the two requests may carry
ConcBodies ==
    {UserCreate(u, e, p, NoName, USER, TRUE) :
        u \in {"alice", "john_doe"}, e \in {"alice@x.com", "a2@x.com"},
        p \in {PW_SECRET1, PW_SHORT}}

InitConc ==
    /\ users = DefaultUsers.users
    /\ next_id = DefaultUsers.next_id
    /\ now = 0
    /\ tokens = {}
    /\ uploads = 0
    /\ resp = NoResponse
    /\ returned = {users[i].id : i \in 1..Len(users)}
    /\ products = SampleProducts.products
    /\ product_next_id = SampleProducts.next_id
    /\ in_flight = {}
    /\ expired_at_exp = FALSE
    /\ pc = [p \in Procs |-> "received"]
    /\ req \in [Procs -> ConcBodies]
    /\ out = [p \in Procs |-> NoResponse]

\* the request body is parsed into a UserCreate: validate_password runs
Validate(p) ==
    /\ pc[p] = "received"
    /\ IF ~validate_password(req[p].password)
           THEN /\ out' = [out EXCEPT ![p] =
                              Response("register", <<>>, 422,
                                       "Password must be at least 6 characters long",
                                       <<>>, <<>>)]
                /\ pc' = [pc EXCEPT ![p] = "done"]
           ELSE /\ pc' = [pc EXCEPT ![p] = "validated"]
                /\ UNCHANGED out
    /\ UNCHANGED <<users, next_id, now, tokens, uploads, resp, returned, req, in_flight,
                   expired_at_exp>>
    /\ ProductsUnchanged

\* register_user runs: one create_user call on the shared store
Handle(p) ==
    /\ pc[p] = "validated"
    /\ ApplyCreate("register", <<>>, <<>>, req[p], MaxId)
    /\ out' = [out EXCEPT ![p] = resp']
    /\ pc' = [pc EXCEPT ![p] = "done"]
    /\ UNCHANGED <<now, tokens, uploads, req, in_flight, expired_at_exp>>
    /\ ProductsUnchanged

NextConc == \E p \in Procs : Validate(p) \/ Handle(p)

SpecConc == InitConc /\ [][NextConc]_vars

----------------------------------------------------------------------------
(* Properties of the Credential Store (SpecStore) *)

UniqueUsernames ==
    \A i, j \in 1..Len(users) : i # j => users[i].username # users[j].username

UniqueEmails ==
    \A i, j \in 1..Len(users) : i # j => users[i].email # users[j].email

UniqueIds ==
    \A i, j \in 1..Len(users) : i # j => users[i].id # users[j].id

\* C1: in every state reachable by register, update and delete calls from the
\* seeded store, no two stored accounts have the same username.
C1_UniqueUsernames == UniqueUsernames

\* a register was refused for its username while three accounts are stored
C1_Witness ==
    /\ resp.op = "register"
    /\ resp.detail = "Username already registered"
    /\ Len(users) = 3

\* C2: in every state reachable by register, update (also of the email) and
\* delete calls, no two stored accounts have the same email.
C2_UniqueEmails == UniqueEmails

\* C3: at most one stored account has any given id, and every successful register
\* returns an id greater than every id an earlier register returned, the ids of
\* deleted accounts included.
C3_IdsNeverReused ==
    /\ []UniqueIds
    /\ [][(resp'.op = "register" /\ resp'.status = 200 /\ users' # users)
              => /\ \A k \in returned : resp'.body[1].id > k
                 /\ \A i \in 1..Len(users) : resp'.body[1].id > users[i].id
                 /\ users'[Len(users')].id = resp'.body[1].id]_vars

\* a register succeeded after an account had been deleted
C3_Witness ==
    /\ resp.op = "register"
    /\ resp.status = 200
    /\ Len(users) < Cardinality(returned)
    /\ resp.body[1].id = next_id - 1

----------------------------------------------------------------------------
(* Concurrent registration (SpecConc) *)

\* C4: when two register calls with the same username and different emails run
\* concurrently, at most one succeeds in every interleaving, and the store never
\* holds two accounts with that username or two accounts with the same id.
C4_ConcurrentRegister ==
    /\ \A p, q \in Procs :
           (p # q /\ req[p].username = req[q].username /\ req[p].email # req[q].email)
               => ~(out[p].status = 200 /\ out[q].status = 200)
    /\ UniqueUsernames
    /\ UniqueIds

\* both requests are done, same new username, different emails: one got through
C4_Witness ==
    /\ req["p1"].username = "alice"
    /\ req["p2"].username = "alice"
    /\ req["p1"].email # req["p2"].email
    /\ out["p2"].status = 200
    /\ out["p1"].status = 400
    /\ out["p1"].detail = "Username already registered"

----------------------------------------------------------------------------
(* The Access Guard (Spec) *)

\* an account with this id is stored
Stored(user_id, us) == \E i \in 1..Len(us) : us[i].id = user_id

\* the header carries a token that verifies and whose subject is a stored username
AuthResolves(auth, us, t) ==
    /\ auth # <<>>
    /\ verify_token(auth[1], t).ok
    /\ \E i \in 1..Len(us) : us[i].username = verify_token(auth[1], t).username

\* the endpoints behind get_current_active_user alone
GuardedOps ==
    {"get_users", "get_user", "update_user", "read_users_me", "upload_file", "upload_files"}

\* the endpoints behind get_admin_user
AdminOps == {"create_user", "delete_user"}

\* C5: a guarded operation (list users, get user, update user, own profile, file
\* upload) runs only for a request whose token verifies and whose subject is an
\* account in the store when the guard is evaluated, before the operation; any
\* other request ends in 401, resolves no principal, returns nothing, suspends no
\* handler and leaves the store, the tokens and the uploads as they were.  Every
\* suspended upload was admitted with a resolved principal.
C5_GuardedOnlyWithValidToken ==
    [][/\ (resp'.op \in GuardedOps /\ in_flight' = in_flight)
              => IF AuthResolves(resp'.auth, users, now)
                     THEN resp'.status # 401
                     ELSE /\ resp'.status = 401
                          /\ resp'.principal = <<>>
                          /\ resp'.body = <<>>
                          /\ UNCHANGED <<users, next_id, returned, tokens, uploads>>
       /\ Cardinality(in_flight') > Cardinality(in_flight)
              => \A r \in in_flight' \ in_flight :
                     /\ AuthResolves(r.auth, users, now)
                     /\ r.principal # <<>>
                     /\ \E i \in 1..Len(users) : StripHash(users[i]) = r.principal[1]
       /\ \A r \in in_flight' : r.principal # <<>>
       /\ uploads' # uploads
              => \/ AuthResolves(resp'.auth, users, now) /\ in_flight' = in_flight
                 \/ in_flight' # in_flight]_vars

\* an upload carrying the well-signed, unexpired token of an account that was
\* deleted was answered 401, after a file had been written for another request
C5_Witness ==
    /\ resp.op \in {"upload_file", "upload_files"}
    /\ resp.status = 401
    /\ resp.auth # <<>>
    /\ verify_token(resp.auth[1], resp.at).ok
    /\ get_user_by_username(users, resp.auth[1].sub) = <<>>
    /\ uploads > 0

\* C6: when the account a token was issued for is deleted, authenticateRequest
\* with that (unexpired) token fails with 401 and yields no principal.
C6_DeletedAccountUnauthorized ==
    [][\A x \in tokens :
           (Stored(x.acct, users) /\ ~Stored(x.acct, users'))
               => /\ get_current_user(<<x.token>>, users', now').status = 401
                  /\ get_current_user(<<x.token>>, users', now').user = <<>>]_vars

\* GET /auth/me with the token of a deleted account was answered 401
C6_Witness ==
    /\ resp.op = "read_users_me"
    /\ resp.status = 401
    /\ resp.principal = <<>>
    /\ \E x \in tokens :
           /\ resp.auth = <<x.token>>
           /\ ~Stored(x.acct, users)
           /\ verify_token(x.token, resp.at).ok

\* C7: once the account a token was issued for has been deleted, every later
\* authenticateRequest with that token fails with 401, whatever is registered,
\* updated or deleted afterwards.
C7_OrphanedIsTerminal ==
    \A x \in tokens :
        ~Stored(x.acct, users) => get_current_user(<<x.token>>, users, now).status = 401

\* C9: on every admin-gated operation the active-check comes before the
\* role-check: an inactive principal gets the inactivity failure whatever its
\* role, and the role failure is reported only for active principals.
C9_ActiveBeforeRole ==
    (resp.op \in AdminOps /\ resp.principal # <<>>)
        => /\ ~resp.principal[1].is_active
               => (resp.status = 400 /\ resp.detail = "Inactive user")
           /\ resp.detail = "Not enough permissions"
               => (resp.principal[1].is_active /\ resp.principal[1].role # ADMIN)

\* an inactive admin asked for an admin-gated operation and was refused for inactivity
C9_Witness ==
    /\ resp.op \in AdminOps
    /\ resp.principal # <<>>
    /\ ~resp.principal[1].is_active
    /\ resp.principal[1].role = ADMIN
    /\ resp.detail = "Inactive user"

----------------------------------------------------------------------------
(* The Token Codec (SpecToken) *)

\* C8: a token issued at iat with lifetime ttl verifies to its subject at every t
\* with iat <= t < iat + ttl and is Expired at every t >= iat + ttl.  At
\* t = iat + ttl this is the answer of a build that refuses a token at the instant
\* exp and not the answer of one that still accepts it
C8_RoundTrip ==
    \A x \in tokens :
        LET r == verify_token(x.token, now)
        IN /\ (x.iat <= now /\ now < x.iat + ACCESS_TOKEN_EXPIRE_MINUTES)
                  => (r.ok /\ r.username = x.sub)
           /\ now >= x.iat + ACCESS_TOKEN_EXPIRE_MINUTES
                  => (~r.ok /\ r.kind = "Expired")

\* C8 in the builds that refuse a token at the instant exp
C8_RoundTripWhereRefusedAtExp == expired_at_exp => C8_RoundTrip

\* C8 at every instant but iat + ttl, in every build
C8_RoundTripOffTheInstant ==
    \A x \in tokens :
        LET r == verify_token(x.token, now)
        IN /\ (x.iat <= now /\ now < x.iat + ACCESS_TOKEN_EXPIRE_MINUTES)
                  => (r.ok /\ r.username = x.sub)
           /\ now > x.iat + ACCESS_TOKEN_EXPIRE_MINUTES
                  => (~r.ok /\ r.kind = "Expired")

----------------------------------------------------------------------------
(* The admin-only endpoints (SpecAdmin) *)

\* the product endpoints behind get_admin_user
ProductAdminOps == {"create_product", "update_product", "delete_product"}

\* the account a resolving Authorization header stands for, as stored in us
PrincipalOf(auth, us, t) == get_user_by_username(us, verify_token(auth[1], t).username)[1]

\* the header resolves to an account that get_current_user makes a User of: a
\* valid principal
ValidPrincipal(auth, us, t) ==
    /\ AuthResolves(auth, us, t)
    /\ ValidUser(PrincipalOf(auth, us, t))

\* the header resolves to an account that is active and has role admin
IsActiveAdmin(auth, us, t) ==
    /\ ValidPrincipal(auth, us, t)
    /\ PrincipalOf(auth, us, t).is_active
    /\ PrincipalOf(auth, us, t).role = ADMIN

----------------------------------------------------------------------------
(* authenticate (SpecStore) *)

\* an account with this username is stored
KnownUsername(us, username) == \E i \in 1..Len(us) : us[i].username = username

\* an account with this username is stored and this is its password
RightPassword(us, username, password) ==
    \E i \in 1..Len(us) :
        /\ us[i].username = username
        /\ verify_password(password, us[i].hashed_password)

----------------------------------------------------------------------------
(* register (SpecStore) *)

\* an account with this email is stored
KnownEmail(us, email) == \E i \in 1..Len(us) : us[i].email = email

\* C13: a register call with a username and an email that no stored account has
\* and a password of at least 6 characters succeeds, and authenticate with that
\* username and password then returns the account with the id and username
\* register returned; and whatever register, update or delete call comes next,
\* every account that authenticate returned for some credentials is returned for
\* them again, with the same id and username, unless that call deleted it.
C13_RegisterThenAuthenticate ==
    /\ [][\A user_create \in StoreBodies :
              (/\ register_user(user_create, MaxId)
               /\ validate_password(user_create.password)
               /\ ~KnownUsername(users, user_create.username)
               /\ ~KnownEmail(users, user_create.email))
                  => /\ resp'.status = 200
                     /\ resp'.body[1].username = user_create.username
                     /\ LET a == authenticate_user(users', user_create.username,
                                                   user_create.password)
                        IN /\ a # <<>>
                           /\ a[1].id = resp'.body[1].id
                           /\ a[1].username = resp'.body[1].username]_vars
    /\ [][\A form_data \in StoreLogins :
              LET a == authenticate_user(users, form_data.username, form_data.password)
                  b == authenticate_user(users', form_data.username, form_data.password)
              IN (a # <<>> /\ ~StoreDelete(a[1].id))
                     => /\ b # <<>>
                        /\ b[1].id = a[1].id
                        /\ b[1].username = a[1].username]_vars

\* an account registered in the run authenticated after a later register call
\* and the deletion of another account
C13_Witness ==
    /\ resp.op = "authenticate"
    /\ resp.status = 200
    /\ resp.body[1].id > DefaultUsers.next_id - 1
    /\ next_id > resp.body[1].id + 1
    /\ ~Stored(DefaultUsers.next_id - 1, users)

\* C14: register tests the username before the email: when the username is
\* stored the call fails with "Username already registered", also when the email
\* is stored too; it fails with "Email already registered" only when the username
\* is free and the email is stored; on either failure the account list and the
\* id counter are unchanged.
C14_UsernameBeforeEmail ==
    [][resp'.op = "register" => \A user_create \in StoreBodies :
           (register_user(user_create, MaxId) /\ validate_password(user_create.password))
               => /\ KnownUsername(users, user_create.username)
                         => /\ resp'.status = 400
                            /\ resp'.detail = "Username already registered"
                            /\ UNCHANGED <<users, next_id>>
                  /\ (~KnownUsername(users, user_create.username)
                          /\ KnownEmail(users, user_create.email))
                         => /\ resp'.status = 400
                            /\ resp'.detail = "Email already registered"
                            /\ UNCHANGED <<users, next_id>>
                  /\ resp'.status = 400 => UNCHANGED <<users, next_id>>]_vars

\* a register call failed on its username in a store where every username and
\* every email a request can carry is taken: both collided
C14_Witness ==
    /\ resp.op = "register"
    /\ resp.status = 400
    /\ resp.detail = "Username already registered"
    /\ \A user_create \in StoreBodies :
           /\ KnownUsername(users, user_create.username)
           /\ KnownEmail(users, user_create.email)

\* C15: a register call with a password shorter than 6 characters fails with the
\* weak-password error (422) before anything is changed: no account is appended
\* and the id counter is not advanced, so the next successful register gets
\* the id it would have got without the failed attempt.
C15_WeakPasswordNoMutation ==
    [][resp'.op = "register" => \A user_create \in StoreBodies :
           register_user(user_create, MaxId)
               => /\ Len(user_create.password) < 6
                         => /\ resp'.status = 422
                            /\ resp'.detail = "Password must be at least 6 characters long"
                            /\ resp'.body = <<>>
                            /\ UNCHANGED <<users, next_id, returned>>
                  /\ resp'.status = 200
                         => /\ Len(user_create.password) >= 6
                            /\ resp'.body[1].id = next_id
                            /\ next_id' = next_id + 1]_vars

\* a register call was refused for its password after the store had grown
C15_Witness ==
    /\ resp.op = "register"
    /\ resp.status = 422
    /\ Len(users) > Len(DefaultUsers.users)
    /\ next_id = users[Len(users)].id + 1

----------------------------------------------------------------------------
(* The views the server hands out (Spec) *)

\* the record has a hashed_password field
HasHash(user) == "hashed_password" \in DOMAIN user

\* C16: no account view that reaches a response carries the password hash: the
\* value returned by register, get by id, list and update, and the principal the
\* dependencies resolve, have no hashed_password field; the stored record with
\* its hash is returned only by get_user_by_username, get_user_by_email and
\* authenticate_user.
C16_NoHashInViews ==
    /\ \A i \in DOMAIN resp.body : ~HasHash(resp.body[i])
    /\ \A i \in DOMAIN resp.principal : ~HasHash(resp.principal[i])
    /\ \A x \in tokens :
           \A i \in DOMAIN get_current_user(<<x.token>>, users, now).user :
               ~HasHash(get_current_user(<<x.token>>, users, now).user[i])
    /\ \A k \in 1..Len(users) :
           /\ \A i \in DOMAIN get_user_by_id(users, users[k].id).value :
                  ~HasHash(get_user_by_id(users, users[k].id).value[i])
           /\ \A i \in DOMAIN get_users(users, 0, k).value :
                  ~HasHash(get_users(users, 0, k).value[i])
           /\ \A i \in DOMAIN update_user(users, next_id, users[k].id, NoFields, now).user :
                  ~HasHash(update_user(users, next_id, users[k].id, NoFields, now).user[i])
           /\ HasHash(get_user_by_username(users, users[k].username)[1])
           /\ HasHash(get_user_by_email(users, users[k].email)[1])
           /\ HasHash(authenticate_user(users, users[k].username,
                                        users[k].hashed_password.digest)[1])

\* an update was answered with the updated account, whose stored record has a hash
C16_Witness ==
    /\ resp.op = "update_user"
    /\ resp.status = 200
    /\ resp.principal # <<>>
    /\ \E k \in 1..Len(users) :
           /\ users[k].id = resp.body[1].id
           /\ HasHash(users[k])
           /\ resp.body[1] = StripHash(users[k])

----------------------------------------------------------------------------
(* list, update and delete (SpecStore) *)

\* the number of accounts at the 0-based positions skip..skip+limit-1 of a list of n
SliceCount(n, skip, limit) ==
    IF skip >= n THEN 0 ELSE IF n - skip < limit THEN n - skip ELSE limit

\* C17: for every skip >= 0 and limit >= 1, list(skip, limit) returns, each
\* without its hash, exactly the accounts at positions skip..skip+limit-1 of the
\* store, in creation order, fewer when the store ends first and none (without
\* failing) when skip is at or past the number of accounts; the store is unchanged.
C17_ListIsTheSlice ==
    [][resp'.op = "list" => \A skip \in StoreSkips, limit \in StoreLimits :
           StoreList(skip, limit)
               => LET count == SliceCount(Len(users), skip, limit)
                  IN /\ resp'.status = 200
                     /\ Len(resp'.body) = count
                     /\ \A k \in 1..count : resp'.body[k] = StripHash(users[skip + k])
                     /\ \A k \in 1..(count - 1) : resp'.body[k].id < resp'.body[k + 1].id
                     /\ UNCHANGED <<users, next_id>>]_vars

\* C18: update(id, fields) on a stored account sets exactly the supplied fields
\* among email, full_name, role and is_active, and updated_at; it leaves the
\* account's id, username, created_at, hashed_password and unsupplied fields, every
\* other account, the order of the store and the id counter unchanged; on an id
\* that is not stored it fails with NotFound and changes nothing.  The updated
\* account is returned without its hash, unless this update or an earlier one set
\* its email, role or is_active to None: the account is stored as supplied and the
\* call fails.
C18_UpdateFrame ==
    [][resp'.op = "update" => \A user_id \in StoreIds, user_update \in StoreUpdates :
           StoreUpdate(user_id, user_update)
               => IF Stored(user_id, users)
                      THEN /\ DOMAIN user_update \subseteq {"email", "full_name", "role", "is_active"}
                           /\ next_id' = next_id
                           /\ Len(users') = Len(users)
                           /\ \A k \in 1..Len(users) :
                                  IF users[k].id = user_id
                                      THEN /\ DOMAIN users'[k] = DOMAIN users[k]
                                           /\ \A f \in DOMAIN user_update :
                                                  users'[k][f] = user_update[f]
                                           /\ users'[k].updated_at = now
                                           /\ \A f \in DOMAIN users[k] \
                                                      (DOMAIN user_update \cup {"updated_at"}) :
                                                  users'[k][f] = users[k][f]
                                           /\ IF \E f \in {"email", "role", "is_active"} :
                                                      IsNone(users'[k][f])
                                                  THEN /\ resp'.status = 500
                                                       /\ resp'.body = <<>>
                                                  ELSE /\ resp'.status = 200
                                                       /\ resp'.body = <<StripHash(users'[k])>>
                                      ELSE users'[k] = users[k]
                      ELSE /\ resp'.status = 404
                           /\ resp'.body = <<>>
                           /\ UNCHANGED <<users, next_id>>]_vars

\* an update set the name, role and activity of the second of more than two
\* accounts and left its email as it was registered
C18_Witness ==
    /\ resp.op = "update"
    /\ resp.status = 200
    /\ Len(users) > Len(DefaultUsers.users)
    /\ resp.body[1] = StripHash(users[2])
    /\ users[2].full_name = NoName
    /\ ~users[2].is_active
    /\ users[2].email = DefaultUsers.users[2].email
    /\ users[2].username = DefaultUsers.users[2].username
    /\ users[2].updated_at # NoTime

\* the accounts of us whose id is not user_id, in the order of us
Without(us, user_id) == SelectSeq(us, LAMBDA u : u.id # user_id)

\* C19: delete(id) returns true exactly when an account with that id is stored,
\* and then removes that one account and nothing else: the other accounts keep
\* their ids, fields and relative order, and the id counter is unchanged;
\* otherwise it returns false and the store is unchanged; so a second delete of
\* the same id returns false.
C19_DeleteFrame ==
    [][resp'.op = "delete" => \A user_id \in StoreIds :
           StoreDelete(user_id)
               => IF Stored(user_id, users)
                      THEN /\ resp'.status = 200
                           /\ Len(users') = Len(users) - 1
                           /\ users' = Without(users, user_id)
                           /\ next_id' = next_id
                           /\ ~Stored(user_id, users')
                           /\ delete_user(users', next_id', user_id).status = 404
                           /\ delete_user(users', next_id', user_id).users = users'
                      ELSE /\ resp'.status = 404
                           /\ UNCHANGED <<users, next_id>>]_vars

\* an account between two others was deleted: the first and the one registered
\* after it are now neighbours
C19_Witness ==
    /\ resp.op = "delete"
    /\ resp.status = 200
    /\ Len(users) > 1
    /\ users[1] = DefaultUsers.users[1]
    /\ users[2].id = DefaultUsers.next_id
    /\ ~Stored(DefaultUsers.users[2].id, users)

----------------------------------------------------------------------------
(* login (Spec) *)

\* C20: login issues a token only after authenticate succeeded: for a stored
\* username with its password the answer is 200 with token_type "bearer" and a
\* token whose subject is the authenticated account's username; for an unknown
\* username or a wrong password the answer is 401, no token is issued and the
\* store is unchanged.
C20_TokenOnlyAfterAuthenticate ==
    [][\A form_data \in LoginForms :
           login_for_access_token(form_data, MaxTokens)
               => IF RightPassword(users, form_data.username, form_data.password)
                      THEN /\ resp'.status = 200
                           /\ resp'.detail = "bearer"
                           /\ Len(resp'.body) = 1
                           /\ resp'.body[1].sub = form_data.username
                           /\ verify_token(resp'.body[1], now).ok
                           /\ authenticate_user(users, form_data.username,
                                                form_data.password)[1].username
                                  = verify_token(resp'.body[1], now).username
                           /\ UNCHANGED <<users, next_id>>
                      ELSE /\ resp'.status = 401
                           /\ resp'.detail = "Incorrect username or password"
                           /\ resp'.body = <<>>
                           /\ UNCHANGED <<tokens, users, next_id>>]_vars

\* a login with a wrong password or an unknown username was refused after another
\* login had been given a token for a stored account
C20_Witness ==
    /\ resp.op = "login"
    /\ resp.status = 401
    /\ resp.body = <<>>
    /\ \E x \in tokens :
           /\ x.token.sub = x.sub
           /\ \E k \in 1..Len(users) : users[k].id = x.acct /\ users[k].username = x.sub

----------------------------------------------------------------------------
(* PUT /users/{user_id} (Spec) *)

\* the header resolves to a valid principal that is active and whose role is not
\* admin
IsActiveNonAdmin(auth, us, t) ==
    /\ ValidPrincipal(auth, us, t)
    /\ PrincipalOf(auth, us, t).is_active
    /\ PrincipalOf(auth, us, t).role # ADMIN

\* C21: an update request from an active principal whose role is not admin
\* changes the store only when the target id is the principal's own id, and then
\* no other account (the request is answered 200, or 500 when the update left the
\* account with no email, role or is_active); for any other target id, stored or
\* not, it ends in 403 Forbidden and no account is changed.
C21_NonAdminUpdatesOnlySelf ==
    [][(resp'.op = "update_user" /\ IsActiveNonAdmin(resp'.auth, users, now))
          => \A user_id \in UserIds, user_update \in UpdateBodies :
                 update_user_endpoint(resp'.auth, user_id, user_update)
                     => IF user_id = PrincipalOf(resp'.auth, users, now).id
                            THEN /\ Len(users') = Len(users)
                                 /\ next_id' = next_id
                                 /\ \A k \in 1..Len(users) :
                                        IF users[k].id # user_id
                                            THEN users'[k] = users[k]
                                            ELSE resp'.status =
                                                     IF ValidUser(users'[k]) THEN 200 ELSE 500
                            ELSE /\ resp'.status = 403
                                 /\ resp'.detail = "Not enough permissions"
                                 /\ resp'.body = <<>>
                                 /\ UNCHANGED <<users, next_id>>]_vars

\* an active non-admin was refused an update while its own account was the only
\* stored one among the ids a request can name: the target did not exist
C21_Witness ==
    /\ resp.op = "update_user"
    /\ resp.status = 403
    /\ resp.principal # <<>>
    /\ resp.principal[1].is_active
    /\ resp.principal[1].role # ADMIN
    /\ \A user_id \in UserIds : Stored(user_id, users) => user_id = resp.principal[1].id

\* C22: privilege is not self-granted through the update endpoint: an update
\* request made by a principal whose role is not admin changes no stored
\* account's role, so no account reaches role admin unless an admin principal
\* performs the update.
C22_NoSelfGrantedRole ==
    [][(/\ resp'.op = "update_user"
        /\ AuthResolves(resp'.auth, users, now)
        /\ PrincipalOf(resp'.auth, users, now).role # ADMIN)
          => /\ Len(users') = Len(users)
             /\ \A k \in 1..Len(users) : users'[k].role = users[k].role]_vars

====
